---- MODULE Spec2Model ----
(***************************************************************************)
(* rtl_wave: an I/Q recorder that reads raw unsigned 8-bit sample buffers  *)
(* from an RTL2832 receiver (sync loop or async callback), removes the     *)
(* 128 bias in place, and appends them to a RIFF/WAVE stream behind a four *)
(* record header.  Source: src/rtl_wave.c.                                 *)
(*                                                                         *)
(* 32-bit unsigned quantities whose wrap-around matters (the header fields *)
(* and samp_rate) are kept as two 16-bit halves <<hi, lo>>, so that         *)
(* arithmetic modulo 2^32 is computed exactly.                             *)
(***************************************************************************)
EXTENDS Integers, Sequences, FiniteSets, TLC

VARIABLES
    pc,             \* position of main()
    exit_status,    \* process exit status, -1 while running
    do_exit,        \* static int do_exit
    bytes_to_read,  \* static uint64_t bytes_to_read
    sync_mode,      \* -S
    samp_rate,      \* uint32_t as <<hi, lo>>
    frequency,      \* uint32_t as <<hi, lo>>
    out_block_size, \* -b, then the validated size
    filename,       \* "-" or a path
    device,         \* the receiver: "ok", "absent", "openfail", "cfgfail"
    feed,           \* the byte pattern of the signal the receiver samples
    file,           \* "none", "stdout", "file", "closed"
    r,              \* int r of main()
    n_read,         \* int n_read of main(); len of the callback
    buffer,         \* the initialised prefix of the sample buffer
    out,            \* header items written to the file, in order
    written,        \* sample bytes accepted by the file
    lastWrite,      \* the latest fwrite of sample bytes: request and count
    stderr,         \* set of diagnostics printed
    cancel_req,     \* rtlsdr_cancel_async took effect on a running async read
    mon,            \* power monitor: interval, ipeak, qpeak, iavg, qavg
    reports,        \* report lines emitted by the power monitor
    raw,            \* the bytes of the latest buffer as the device delivered them
    deliveries,     \* number of buffers the device has delivered
    signals,        \* number of signals delivered to the process
    limit,          \* the byte budget requested with -n (initial bytes_to_read)
    last,           \* what happened to the latest delivered buffer
    late,           \* buffers handed to fwrite while do_exit was already set
    trunc,          \* remaining budget at the truncating buffer, -1 if none
    clean,          \* every delivery so far was full, no failure, no signal
    block_req,      \* the block size requested with -b (initial out_block_size)
    passes          \* conversion passes applied to a buffer taken on its own

vars == <<pc, exit_status, do_exit, bytes_to_read, sync_mode, samp_rate,
          frequency, out_block_size, filename, device, feed, file, r, n_read, buffer, out,
          written, lastWrite, stderr, cancel_req, mon, reports, raw,
          deliveries, signals, limit, last, late, trunc, clean, block_req,
          passes>>

(***************************************************************************)
(* Program constants                                                       *)
(***************************************************************************)
DEFAULT_SAMPLE_RATE == 2048000
DEFAULT_BUF_LENGTH  == 16 * 16384
MINIMAL_BUF_LENGTH  == 512
MAXIMAL_BUF_LENGTH  == 256 * 16384
interval_seconds    == 2
DEFAULT_FREQUENCY   == 100000000

(***************************************************************************)
(* Bounds of the model                                                     *)
(***************************************************************************)
MaxDeliveries == 3      \* buffers the device delivers in one run
MaxSignals    == 1      \* signals delivered to the process in one run
MaxDataLen    == 513    \* longest buffer whose bytes are enumerated
MaxPasses     == 2      \* conversion passes over a buffer taken on its own

(***************************************************************************)
(* Unsigned 32-bit values as <<hi, lo>>, each half in 0..65535             *)
(***************************************************************************)
Half == 256 * 256

U32(n) == <<(n \div Half) % Half, n % Half>>

\* conversion of a (possibly negative) int to uint32_t, as in `size = -1`
U32FromInt(i) ==
    IF i >= 0 THEN U32(i)
    ELSE LET m == (0 - i) - 1
         IN  <<(Half - 1) - ((m \div Half) % Half), (Half - 1) - (m % Half)>>

\* unsigned 32-bit product of a small int k and x, modulo 2^32
MulU32(k, x) ==
    LET lo == k * x[2]
        hi == k * x[1] + (lo \div Half)
    IN  <<hi % Half, lo % Half>>

\* unsigned comparison a > b
GtU32(a, b) == a[1] > b[1] \/ (a[1] = b[1] /\ a[2] > b[2])

U16(n) == n % Half

RECURSIVE SumSeq(_)
SumSeq(s) == IF s = <<>> THEN 0 ELSE Head(s) + SumSeq(Tail(s))

(***************************************************************************)
(* The packed header structures: the byte width of each field in order     *)
(***************************************************************************)
datetime_t == <<2, 2, 2, 2, 2, 2, 2, 2>>
riff_t     == <<4, 4, 4>>
fmt_t      == <<2, 2, 4, 4, 2, 2>>
auxi_t     == <<SumSeq(datetime_t), SumSeq(datetime_t), 4, 4, 4, 4, 4>>
chunk_t    == <<4, 4>>

SizeOf(layout) == SumSeq(layout)

(***************************************************************************)
(* wave_header: the six items it writes, in order                          *)
(***************************************************************************)
\* set_datetime on a zeroed datetime_t: day_of_week and milliseconds stay 0
set_datetime(tm) ==
    [year |-> U16(tm.tm_year + 1900), month |-> U16(tm.tm_mon + 1),
     day_of_week |-> 0, day |-> U16(tm.tm_mday), hour |-> U16(tm.tm_hour),
     minute |-> U16(tm.tm_min), second |-> U16(tm.tm_sec), milliseconds |-> 0]

ZeroDatetime ==
    [year |-> 0, month |-> 0, day_of_week |-> 0, day |-> 0, hour |-> 0,
     minute |-> 0, second |-> 0, milliseconds |-> 0]

RiffRecord ==
    [type |-> "riff_t", size |-> SizeOf(riff_t),
     val |-> [id |-> "RIFF", size |-> U32FromInt(-1), type |-> "WAVE"]]

\* mutant: the 'fmt ' size field takes the size of the chunk header instead
FmtChunkHeaderSize ==
    [type |-> "chunk_t", size |-> SizeOf(chunk_t),
     val |-> [id |-> "fmt ", size |-> U32(SizeOf(chunk_t))]]

FmtChunk ==
    [type |-> "chunk_t", size |-> SizeOf(chunk_t),
     val |-> [id |-> "fmt ", size |-> U32(SizeOf(fmt_t))]]

\* mutant: the byte rate is computed from bits, not bytes, per sample
FmtRecordBitRate(samp, bits) ==
    LET channels == 2
        bps      == U16(bits)
    IN  [type |-> "fmt_t", size |-> SizeOf(fmt_t),
         val |-> [format_tag |-> 1,
                  channels |-> channels,
                  samples_per_sec |-> samp,
                  data_rate |-> MulU32(channels * bps, samp),
                  block_size |-> U16((channels * bps) \div 8),
                  bits_per_sample |-> bps]]

FmtRecord(samp, bits) ==
    LET channels == 2
        bps      == U16(bits)
    IN  [type |-> "fmt_t", size |-> SizeOf(fmt_t),
         val |-> [format_tag |-> 1,
                  channels |-> channels,
                  samples_per_sec |-> samp,
                  data_rate |-> MulU32((channels * bps) \div 8, samp),
                  block_size |-> U16((channels * bps) \div 8),
                  bits_per_sample |-> bps]]

AuxiChunk ==
    [type |-> "chunk_t", size |-> SizeOf(chunk_t),
     val |-> [id |-> "auxi", size |-> U32(SizeOf(auxi_t))]]

AuxiRecord(freq, tm) ==
    [type |-> "auxi_t", size |-> SizeOf(auxi_t),
     val |-> [start_time |-> set_datetime(tm), stop_time |-> ZeroDatetime,
              frequency |-> freq, sample_frequency |-> U32(0),
              if_frequency |-> U32(0), bandwidth |-> U32(0),
              dc_offset |-> U32(0)]]

DataChunk ==
    [type |-> "chunk_t", size |-> SizeOf(chunk_t),
     val |-> [id |-> "data", size |-> U32FromInt(-1)]]

\* mutant: the 'data' record header is written before the 'auxi' record
HeaderItemsDataFirst(samp, freq, bits, tm) ==
    << RiffRecord, FmtChunk, FmtRecord(samp, bits), DataChunk, AuxiChunk,
       AuxiRecord(freq, tm) >>

HeaderItems(samp, freq, bits, tm) ==
    << RiffRecord, FmtChunk, FmtRecord(samp, bits), AuxiChunk,
       AuxiRecord(freq, tm), DataChunk >>

\* the file after wave_header when the first k items are written in full and,
\* for k < 6, item k+1 is cut short at c bytes
HeaderOutput(items, k, c) ==
    [i \in 1..(IF k < Len(items) THEN k + 1 ELSE k) |->
        [item |-> items[i], count |-> IF i <= k THEN items[i].size ELSE c]]

(***************************************************************************)
(* Sample conversion and the power monitor                                 *)
(***************************************************************************)
\* buf[n] = buf[n] - 128: int arithmetic, then truncation to unsigned char
\* mutant: the operands of the subtraction are swapped
ConvertSwapped(b) == (128 - b) % 256

Convert(b) == (b - 128) % 256

ConvertPrefix(buf, n) ==
    [i \in 1..Len(buf) |-> IF i <= n THEN Convert(buf[i]) ELSE buf[i]]

\* mutant: the raw byte is squared without taking the bias off
SqUnbiased(b) == b * b

\* squared amplitude of a raw byte, in units of 1/16384 ((b - 128) / 128 squared)
Sq(b) == (b - 128) * (b - 128)

Max2(a, b) == IF a > b THEN a ELSE b

\* the byte the monitor reads at C index i: a byte of the buffer when it is
\* initialised, otherwise an indeterminate byte g
ByteAt(buf, i, g) == IF i + 1 <= Len(buf) THEN buf[i + 1] ELSE g

\* the loop `for (i = 0; i < n; i += 2)` runs once per even i below n
Iterations(n) == (n + 1) \div 2

\* sum over iterations lo..hi of the squared byte at C index 2k + off; the
\* sums are exact (integers), so the order of addition does not matter
RECURSIVE SumSq(_, _, _, _, _)
SumSq(buf, off, lo, hi, g) ==
    IF lo > hi THEN 0
    ELSE IF lo = hi THEN Sq(ByteAt(buf, 2 * lo + off, g))
    ELSE LET mid == (lo + hi) \div 2
         IN  SumSq(buf, off, lo, mid, g) + SumSq(buf, off, mid + 1, hi, g)

\* the largest of old and the squared bytes at C indices 2k + off
PeakSq(buf, off, n, g, old) ==
    LET S == {Sq(ByteAt(buf, 2 * k + off, g)) : k \in 0..(Iterations(n) - 1)} \cup {old}
    IN  CHOOSE x \in S : \A y \in S : y <= x

\* the accumulators after the pair loop over buf[0..n-1]
Accumulate(buf, n, g, m) ==
    [m EXCEPT !.iavg = @ + SumSq(buf, 0, 0, Iterations(n) - 1, g),
              !.qavg = @ + SumSq(buf, 1, 0, Iterations(n) - 1, g),
              !.ipeak = PeakSq(buf, 0, n, g, @),
              !.qpeak = PeakSq(buf, 1, n, g, @)]

ZeroMon == [interval |-> 0, ipeak |-> 0, qpeak |-> 0, iavg |-> 0, qavg |-> 0]

\* the accumulators after the pair loop and `interval += n_read / 2`
Accounted(buf, n, g, m) ==
    [Accumulate(buf, n, g, m) EXCEPT !.interval = @ + (n \div 2)]

\* mutant: the report is due as soon as the counter reaches the threshold
ReportDueAtLeast(m, samp) ==
    ~GtU32(MulU32(interval_seconds, samp), U32(m.interval))

\* interval > samp_rate * interval_seconds, compared as unsigned 32-bit
ReportDue(m, samp) == GtU32(U32(m.interval), MulU32(interval_seconds, samp))

(***************************************************************************)
(* The device and the output file (environment)                            *)
(***************************************************************************)
Patterns == {"ramp", "alt"}

PatternByte(pat, i) ==
    IF pat = "ramp" THEN i % 256
    ELSE IF i % 2 = 0 THEN 255 ELSE 0

Data(pat, n) == [i \in 1..n |-> PatternByte(pat, i - 1)]

\* lengths of the buffers the device delivers: a short one and a full one
Lens(size) == {l \in {3, size} : l <= MaxDataLen}

\* bytes fwrite accepts of a request of n bytes: all of them, or one less
WriteOutcomes(n) == {n} \cup (IF n > 0 THEN {n - 1} ELSE {})

\* an indeterminate byte (uninitialised or beyond the allocation)
Garbage == {0, 128}

Times == {[tm_year |-> 126, tm_mon |-> 10, tm_mday |-> 2, tm_hour |-> 3,
           tm_min |-> 11, tm_sec |-> 59]}

Abs(x) == IF x >= 0 THEN x ELSE 0 - x

MsgBlockSize  == "Output block size wrong value, falling back to default"
MsgOpenDev    == "Failed to open rtlsdr device"
MsgSetup      == "WARNING: device setup failed"
MsgOpenFile   == "Failed to open file"
MsgSignal     == "Signal caught, exiting!"
MsgShortWrite == "Short write, samples lost, exiting!"
MsgShortRead  == "Short read, samples lost, exiting!"
MsgReadFailed == "WARNING: sync read failed."
MsgUserCancel == "User cancel, exiting..."
MsgLibError   == "Library error, exiting..."

NoDelivery == [len |-> 0, budget |-> 0, flag |-> 0, fate |-> "none",
               req |-> 0, acc |-> 0]

(***************************************************************************)
(* Initial states: the state after option parsing                          *)
(***************************************************************************)
InitWith(modes, counts, rates, blocks, files, devices, feeds) ==
    /\ pc = "start"
    /\ exit_status = -1
    /\ do_exit = 0
    /\ sync_mode \in modes
    /\ \E n \in counts : bytes_to_read = n * 2 /\ limit = n * 2
    /\ samp_rate \in rates
    /\ frequency = U32(DEFAULT_FREQUENCY)
    /\ out_block_size \in blocks
    /\ block_req = out_block_size
    /\ passes = 0
    /\ filename \in files
    /\ device \in devices
    /\ feed \in feeds
    /\ file = "none"
    /\ r = 0
    /\ n_read = 0
    /\ buffer = <<>>
    /\ out = <<>>
    /\ written = 0
    /\ lastWrite = [req |-> <<>>, acc |-> 0]
    /\ stderr = {}
    /\ cancel_req = FALSE
    /\ mon = ZeroMon
    /\ reports = <<>>
    /\ raw = <<>>
    /\ deliveries = 0
    /\ signals = 0
    /\ last = NoDelivery
    /\ late = 0
    /\ trunc = -1
    /\ clean = TRUE

Init ==
    InitWith({0, 1}, {0, 1, 256, 257, 512}, {U32(DEFAULT_SAMPLE_RATE)},
             {0, 512, 513}, {"out.wav"}, {"ok", "absent", "openfail"}, Patterns)

options == <<sync_mode, samp_rate, frequency, filename, device, feed, limit,
             block_req, passes>>
monitor == <<mon, reports>>
capture == <<n_read, buffer, raw, deliveries, last, late, trunc, written,
             lastWrite, bytes_to_read>>

(***************************************************************************)
(* main(): start-up                                                        *)
(***************************************************************************)
\* mutant: only the lower limit of the block size is enforced
CheckBlockSizeNoUpperLimit ==
    /\ pc = "start"
    /\ IF out_block_size < MINIMAL_BUF_LENGTH
       THEN /\ out_block_size' = DEFAULT_BUF_LENGTH
            /\ stderr' = stderr \cup {MsgBlockSize}
       ELSE UNCHANGED <<out_block_size, stderr>>
    /\ pc' = "open"
    /\ UNCHANGED <<exit_status, do_exit, file, r, out, cancel_req, signals,
                   clean, options, monitor, capture>>

CheckBlockSize ==
    /\ pc = "start"
    /\ IF out_block_size < MINIMAL_BUF_LENGTH \/ out_block_size > MAXIMAL_BUF_LENGTH
       THEN /\ out_block_size' = DEFAULT_BUF_LENGTH
            /\ stderr' = stderr \cup {MsgBlockSize}
       ELSE UNCHANGED <<out_block_size, stderr>>
    /\ pc' = "open"
    /\ UNCHANGED <<exit_status, do_exit, file, r, out, cancel_req, signals,
                   clean, options, monitor, capture>>

OpenDevice ==
    /\ pc = "open"
    /\ CASE device = "absent" ->
                /\ pc' = "exited"
                /\ exit_status' = 1
                /\ UNCHANGED <<r, stderr>>
         [] device = "openfail" ->
                /\ r' = -1
                /\ stderr' = stderr \cup {MsgOpenDev}
                /\ pc' = "exited"
                /\ exit_status' = 1
         [] OTHER ->
                /\ r' = 0
                /\ pc' = "configure"
                /\ UNCHANGED <<exit_status, stderr>>
    /\ UNCHANGED <<do_exit, out_block_size, file, out, cancel_req, signals,
                   clean, options, monitor, capture>>

\* the results of the verbose_* helpers are not looked at
Configure ==
    /\ pc = "configure"
    /\ stderr' = IF device = "cfgfail" THEN stderr \cup {MsgSetup} ELSE stderr
    /\ pc' = "fopen"
    /\ UNCHANGED <<exit_status, do_exit, out_block_size, file, r, out,
                   cancel_req, signals, clean, options, monitor, capture>>

OpenOutput ==
    /\ pc = "fopen"
    /\ IF filename = "-"
       THEN /\ file' = "stdout"
            /\ pc' = "header"
            /\ UNCHANGED <<exit_status, stderr>>
       ELSE \E ok \in BOOLEAN :
              IF ok
              THEN /\ file' = "file"
                   /\ pc' = "header"
                   /\ UNCHANGED <<exit_status, stderr>>
              ELSE /\ stderr' = stderr \cup {MsgOpenFile}
                   /\ pc' = "done"
                   /\ exit_status' = Abs(r)
                   /\ UNCHANGED file
    /\ UNCHANGED <<do_exit, out_block_size, r, out, cancel_req, signals,
                   clean, options, monitor, capture>>

WaveHeader ==
    /\ pc = "header"
    /\ \E tm \in Times :
         LET items == HeaderItems(samp_rate, frequency, 8, tm)
         IN  \E k \in 0..Len(items) :
               IF k = Len(items)
               THEN /\ out' = HeaderOutput(items, k, 0)
                    /\ pc' = "reset"
                    /\ UNCHANGED exit_status
               ELSE \E c \in {0, items[k + 1].size - 1} :
                      /\ out' = HeaderOutput(items, k, c)
                      /\ pc' = "exited"
                      /\ exit_status' = 1
    /\ mon' = ZeroMon
    /\ UNCHANGED <<do_exit, out_block_size, file, r, stderr, cancel_req,
                   signals, clean, options, reports, capture>>

StartCapture ==
    /\ pc = "reset"
    /\ stderr' = IF device = "cfgfail" THEN stderr \cup {MsgSetup} ELSE stderr
    /\ pc' = IF sync_mode = 1 THEN "sync_loop" ELSE "async"
    /\ UNCHANGED <<exit_status, do_exit, out_block_size, file, r, out,
                   cancel_req, signals, clean, options, monitor, capture>>

(***************************************************************************)
(* Sync mode: while (!do_exit) { read; process; }                          *)
(***************************************************************************)
\* mutant: the flag is never seen as set before a buffer
ExitNeverRequested(flag) == FALSE

\* `while (!do_exit)` and `if (do_exit) return;`: the test before each buffer
ExitRequested(flag) == flag # 0

SyncLoopHead ==
    /\ pc = "sync_loop"
    /\ pc' = IF ExitRequested(do_exit) THEN "finish" ELSE "sync_read"
    /\ UNCHANGED <<exit_status, do_exit, out_block_size, file, r, out, stderr,
                   cancel_req, signals, clean, options, monitor, capture>>

\* rtlsdr_read_sync returns: an error, or n_read bytes stored in buffer
SyncRead ==
    /\ pc = "sync_read"
    /\ deliveries < MaxDeliveries
    /\ \/ /\ r' = -1
          /\ stderr' = stderr \cup {MsgReadFailed}
          /\ pc' = "finish"
          /\ clean' = FALSE
          /\ UNCHANGED <<n_read, buffer, raw, deliveries, last>>
       \/ \E len \in Lens(out_block_size) :
            /\ r' = 0
            /\ n_read' = len
            /\ raw' = Data(feed, len)
            /\ buffer' = [i \in 1..Max2(len, Len(buffer)) |->
                             IF i <= len THEN PatternByte(feed, i - 1) ELSE buffer[i]]
            /\ deliveries' = deliveries + 1
            /\ last' = [len |-> len, budget |-> bytes_to_read, flag |-> do_exit,
                        fate |-> "delivered", req |-> 0, acc |-> 0]
            /\ clean' = (clean /\ len = out_block_size)
            /\ pc' = "sync_proc"
            /\ UNCHANGED stderr
    /\ UNCHANGED <<exit_status, do_exit, out_block_size, file, out, cancel_req,
                   signals, options, monitor, late, trunc, written, lastWrite,
                   bytes_to_read>>

\* the budget test that opens the processing of a buffer of len bytes
Truncates(budget, len) == budget > 0 /\ budget < len

\* mutant: the length is not cut down to the remaining budget
EffectiveLenUncut(budget, len) == len

\* the number of bytes of the buffer that are processed
EffectiveLen(budget, len) == IF Truncates(budget, len) THEN budget ELSE len

\* the body of the sync loop after a successful read
SyncProcess ==
    /\ pc = "sync_proc"
    /\ LET cut  == Truncates(bytes_to_read, n_read)
           n    == EffectiveLen(bytes_to_read, n_read)
           flag == IF cut THEN 1 ELSE do_exit
           conv == ConvertPrefix(buffer, n)
       IN  \E g \in (IF n + 1 > Len(buffer) /\ n % 2 = 1 THEN Garbage ELSE {0}),
              acc \in WriteOutcomes(n) :
             LET m == Accounted(buffer, n, g, mon)
             IN  /\ n_read' = n
                 /\ do_exit' = flag
                 /\ trunc' = IF cut THEN bytes_to_read ELSE trunc
                 /\ IF ReportDue(m, samp_rate)
                    THEN /\ reports' = Append(reports, m)
                         /\ mon' = ZeroMon
                    ELSE /\ reports' = reports
                         /\ mon' = m
                 /\ buffer' = conv
                 /\ lastWrite' = [req |-> SubSeq(conv, 1, n), acc |-> acc]
                 /\ written' = written + acc
                 /\ last' = [last EXCEPT !.fate = "written", !.req = n, !.acc = acc]
                 /\ late' = IF flag # 0 THEN late + 1 ELSE late
                 /\ IF acc # n
                    THEN /\ stderr' = stderr \cup {MsgShortWrite}
                         /\ pc' = "finish"
                         /\ clean' = FALSE
                         /\ UNCHANGED bytes_to_read
                    ELSE IF n < out_block_size
                    THEN /\ stderr' = stderr \cup {MsgShortRead}
                         /\ pc' = "finish"
                         /\ UNCHANGED <<bytes_to_read, clean>>
                    ELSE /\ bytes_to_read' =
                              IF bytes_to_read > 0 THEN bytes_to_read - n
                              ELSE bytes_to_read
                         /\ pc' = "sync_loop"
                         /\ UNCHANGED <<stderr, clean>>
    /\ UNCHANGED <<exit_status, out_block_size, file, r, out, cancel_req,
                   signals, options, raw, deliveries>>

(***************************************************************************)
(* Async mode: rtlsdr_read_async invokes rtlsdr_callback per buffer        *)
(***************************************************************************)
\* the device hands a buffer to rtlsdr_callback, which returns at once when
\* do_exit is set
CallbackEntry ==
    /\ pc = "async"
    /\ deliveries < MaxDeliveries
    /\ \E len \in Lens(out_block_size) :
         /\ raw' = Data(feed, len)
         /\ buffer' = Data(feed, len)
         /\ n_read' = len
         /\ deliveries' = deliveries + 1
         /\ clean' = (clean /\ len = out_block_size)
         /\ last' = [len |-> len, budget |-> bytes_to_read, flag |-> do_exit,
                     fate |-> IF ExitRequested(do_exit) THEN "dropped"
                              ELSE "delivered",
                     req |-> 0, acc |-> 0]
    /\ pc' = IF ExitRequested(do_exit) THEN "async" ELSE "async_cb"
    /\ UNCHANGED <<exit_status, do_exit, out_block_size, file, r, out, stderr,
                   cancel_req, signals, options, monitor, late, trunc, written,
                   lastWrite, bytes_to_read>>

\* rtlsdr_callback after the do_exit test
CallbackBody ==
    /\ pc = "async_cb"
    /\ LET cut  == Truncates(bytes_to_read, n_read)
           len  == EffectiveLen(bytes_to_read, n_read)
           flag == IF cut THEN 1 ELSE do_exit
           conv == ConvertPrefix(buffer, len)
       IN  \E acc \in WriteOutcomes(len) :
             /\ n_read' = len
             /\ do_exit' = flag
             /\ trunc' = IF cut THEN bytes_to_read ELSE trunc
             /\ buffer' = conv
             /\ lastWrite' = [req |-> SubSeq(conv, 1, len), acc |-> acc]
             /\ written' = written + acc
             /\ last' = [last EXCEPT !.fate = "written", !.req = len, !.acc = acc]
             /\ late' = IF flag # 0 THEN late + 1 ELSE late
             /\ cancel_req' = (cancel_req \/ cut \/ acc # len)
             /\ stderr' = IF acc # len THEN stderr \cup {MsgShortWrite} ELSE stderr
             /\ clean' = (clean /\ acc = len)
             /\ bytes_to_read' =
                  IF bytes_to_read > 0 THEN bytes_to_read - len ELSE bytes_to_read
    /\ pc' = "async"
    /\ UNCHANGED <<exit_status, out_block_size, file, r, out, signals, options,
                   monitor, raw, deliveries>>

\* rtlsdr_read_async returns: cancelled (0) or a library error
AsyncReturn ==
    /\ pc = "async"
    /\ \/ /\ cancel_req
          /\ r' = 0
          /\ UNCHANGED clean
       \/ /\ r' = -1
          /\ clean' = FALSE
    /\ pc' = "finish"
    /\ UNCHANGED <<exit_status, do_exit, out_block_size, file, out, stderr,
                   cancel_req, signals, options, monitor, capture>>

(***************************************************************************)
(* Shutdown and the signal handler                                         *)
(***************************************************************************)
Finish ==
    /\ pc = "finish"
    /\ stderr' = stderr \cup {IF do_exit # 0 THEN MsgUserCancel ELSE MsgLibError}
    /\ file' = IF file = "stdout" THEN file ELSE "closed"
    /\ exit_status' = Abs(r)
    /\ pc' = "done"
    /\ UNCHANGED <<do_exit, out_block_size, r, out, cancel_req, signals, clean,
                   options, monitor, capture>>

\* installed by sigaction after rtlsdr_open; cancel only acts on a running
\* async read
sighandler ==
    /\ pc \notin {"start", "open", "done", "exited"}
    /\ signals < MaxSignals
    /\ signals' = signals + 1
    /\ stderr' = stderr \cup {MsgSignal}
    /\ do_exit' = 1
    /\ cancel_req' = (cancel_req \/ pc \in {"async", "async_cb"})
    /\ clean' = FALSE
    /\ UNCHANGED <<pc, exit_status, out_block_size, file, r, out, options,
                   monitor, capture>>

Next ==
    \/ CheckBlockSize
    \/ OpenDevice
    \/ Configure
    \/ OpenOutput
    \/ WaveHeader
    \/ StartCapture
    \/ SyncLoopHead
    \/ SyncRead
    \/ SyncProcess
    \/ CallbackEntry
    \/ CallbackBody
    \/ AsyncReturn
    \/ Finish
    \/ sighandler

Spec == Init /\ [][Next]_vars

(***************************************************************************)
(* The sample conversion on its own: the loop of lines 97 and 417 applied  *)
(* to a one-byte buffer, once or repeatedly                                *)
(***************************************************************************)
InitConvert ==
    /\ pc = "convert"
    /\ exit_status = -1
    /\ do_exit = 0
    /\ sync_mode = 1
    /\ bytes_to_read = 0 /\ limit = 0
    /\ samp_rate = U32(DEFAULT_SAMPLE_RATE)
    /\ frequency = U32(DEFAULT_FREQUENCY)
    /\ out_block_size = MINIMAL_BUF_LENGTH
    /\ block_req = out_block_size
    /\ passes = 0
    /\ filename = "out.wav"
    /\ device = "ok"
    /\ feed = "ramp"
    /\ file = "file"
    /\ r = 0
    /\ \E b \in 0..255 : raw = <<b>> /\ buffer = <<b>>
    /\ n_read = 1
    /\ out = <<>>
    /\ written = 0
    /\ lastWrite = [req |-> <<>>, acc |-> 0]
    /\ stderr = {}
    /\ cancel_req = FALSE
    /\ mon = ZeroMon
    /\ reports = <<>>
    /\ deliveries = 1
    /\ signals = 0
    /\ last = NoDelivery
    /\ late = 0
    /\ trunc = -1
    /\ clean = TRUE

\* one pass of "for (i = 0; i < n_read; i++) buffer[i] -= 128;"
ConvertPass ==
    /\ pc = "convert"
    /\ passes < MaxPasses
    /\ buffer' = ConvertPrefix(buffer, n_read)
    /\ passes' = passes + 1
    /\ UNCHANGED <<pc, exit_status, do_exit, bytes_to_read, sync_mode,
                   samp_rate, frequency, out_block_size, filename, device,
                   feed, file, r, n_read, out, written, lastWrite, stderr,
                   cancel_req, mon, reports, raw, deliveries, signals, limit,
                   last, late, trunc, clean, block_req>>

NextConvert == ConvertPass

SpecConvert == InitConvert /\ [][NextConvert]_vars

\* sample rates across the 32-bit range: 0, the default, 2^31 - 1, 2^31,
\* 3000000000 and 2^32 - 1
HeaderRates ==
    {U32(0), U32(DEFAULT_SAMPLE_RATE), <<32767, 65535>>, <<32768, 0>>,
     <<45776, 24064>>, <<65535, 65535>>}

InitHeader ==
    InitWith({0, 1}, {0}, HeaderRates, {512}, {"out.wav"}, {"ok"}, {"ramp"})

SpecHeader == InitHeader /\ [][Next]_vars

\* sample rates whose report threshold samp_rate * interval_seconds is
\* reached within a few buffers: 2, 256, and 2^31 whose doubled value wraps to 0
MonitorRates == {U32(1), U32(128), <<32768, 0>>}

InitMonitor ==
    InitWith({0, 1}, {0}, MonitorRates, {512, 513}, {"out.wav"}, {"ok"},
             Patterns)

SpecMonitor == InitMonitor /\ [][Next]_vars

\* block sizes requested with -b: below, at and above both limits
BlockRequests ==
    {0, MINIMAL_BUF_LENGTH - 1, MINIMAL_BUF_LENGTH, MINIMAL_BUF_LENGTH + 1,
     DEFAULT_BUF_LENGTH, MAXIMAL_BUF_LENGTH, MAXIMAL_BUF_LENGTH + 1}

InitBlock ==
    InitWith({0, 1}, {0}, {U32(DEFAULT_SAMPLE_RATE)}, BlockRequests,
             {"out.wav"}, {"ok"}, {"ramp"})

SpecBlock == InitBlock /\ [][Next]_vars

\* devices: sound, not found, failing to open, failing during set-up
InitDevice ==
    InitWith({0, 1}, {0}, {U32(DEFAULT_SAMPLE_RATE)}, {MINIMAL_BUF_LENGTH},
             {"out.wav"}, {"ok", "absent", "openfail", "cfgfail"}, {"ramp"})

SpecDevice == InitDevice /\ [][Next]_vars

(***************************************************************************)
(* Properties                                                              *)
(***************************************************************************)
Capturing == pc \in {"sync_loop", "sync_read", "sync_proc", "async", "async_cb"}

\* C1: with a capture limit of B > 0 bytes, the total number of sample bytes
\* written to the output never exceeds B, in sync and in async mode (stated
\* here for the runs in which every write of sample bytes completes).
C1_WrittenWithinLimit ==
    (limit > 0 /\ MsgShortWrite \notin stderr) => written <= limit

\* C2: with a limit set, full buffers delivered and no failure, the stream is
\* stopped once the remaining budget reaches zero: when bytes_to_read has been
\* counted down to zero the cancellation flag is set.
C2_StoppedAtZero ==
    (limit > 0 /\ clean /\ bytes_to_read = 0 /\ Capturing) => do_exit = 1

\* C3 as stated: whenever a buffer is delivered while the remaining budget is
\* positive and smaller than the buffer's length, exactly the remaining budget
\* of bytes is written and the cancellation flag is set.
C3_DeliveredBufferCutExactly ==
    (last.budget > 0 /\ last.budget < last.len /\ last.fate # "delivered")
        => (last.acc = last.budget /\ do_exit = 1)

\* C3 amended: whenever a buffer is processed (in async mode: delivered while
\* do_exit is clear) with 0 < budget < length, exactly budget bytes of it are
\* converted and handed to fwrite, which accepts them all unless the write is
\* short; do_exit is set in the same step; no byte is written afterwards.
C3_CutState ==
    (last.budget > 0 /\ last.budget < last.len /\ last.fate = "written")
        => /\ last.req = last.budget
           /\ Len(lastWrite.req) = last.budget
           /\ \A i \in 1..last.budget : lastWrite.req[i] = (raw[i] + 128) % 256
           /\ \/ last.acc = last.budget
              \/ last.acc < last.budget /\ MsgShortWrite \in stderr
           /\ do_exit = 1
           /\ trunc = last.budget

C3_CutStep == (trunc >= 0) => (written' = written /\ lastWrite' = lastWrite)

C3_ProcessedBufferCutExactly == [](C3_CutState) /\ [][C3_CutStep]_vars

\* C3 witness: a limit of one buffer minus one byte, the buffer cut and written
C3_Witness ==
    /\ last.fate = "written"
    /\ last.len = out_block_size
    /\ last.budget = out_block_size - 1
    /\ last.acc = last.budget
    /\ written = limit

\* C4: every cause of early termination (signal, short write of sample bytes,
\* budget exhaustion) sets do_exit: capture never ends because of one of them
\* with the flag still clear.
C4_EveryCauseSetsFlag ==
    (pc \in {"finish", "done"}
       /\ (MsgSignal \in stderr \/ MsgShortWrite \in stderr \/ trunc >= 0))
        => do_exit = 1

\* C5: after a short write of sample bytes no later buffer is converted or
\* written, in sync and in async mode.
C5_NothingWrittenAfterShortWrite ==
    [][(MsgShortWrite \notin stderr) \/ (written' = written /\ lastWrite' = lastWrite)]_vars

\* C6 as stated: a buffer that the device delivers after do_exit has been set
\* is neither converted nor written.
C6_LateBufferNeverWritten == last.flag # 0 => last.fate # "written"

\* C6 amended: the flag is checked at callback entry (async) and at the loop
\* head before the read is issued (sync).  In async mode a buffer delivered
\* after do_exit was set is dropped; in sync mode the buffer whose read was
\* already issued is still converted and written.  In both modes at most one
\* buffer is written once do_exit is set.
C6_AtMostOneLateBuffer ==
    /\ (sync_mode = 0 /\ last.flag # 0) => last.fate = "dropped"
    /\ late <= 1

\* C6 witness: a signal, then a buffer delivered to the callback and dropped
C6_Witness ==
    /\ MsgSignal \in stderr
    /\ last.flag # 0
    /\ last.fate = "dropped"
    /\ written > 0

HeaderComplete ==
    /\ Len(out) = 6
    /\ \A i \in 1..6 : out[i].count = out[i].item.size
    /\ out[1].item.type = "riff_t" /\ out[1].item.val.id = "RIFF"
    /\ out[1].item.val.type = "WAVE"
    /\ out[2].item.type = "chunk_t" /\ out[2].item.val.id = "fmt "
    /\ out[3].item.type = "fmt_t"
    /\ out[4].item.type = "chunk_t" /\ out[4].item.val.id = "auxi"
    /\ out[5].item.type = "auxi_t"
    /\ out[6].item.type = "chunk_t" /\ out[6].item.val.id = "data"

\* C7: the header records are written completely, once and in the order
\* RIFF/WAVE, 'fmt ', 'auxi', 'data' before the first sample byte in either
\* mode; if a header write is short the process exits and no sample byte is
\* ever written.
C7_HeaderBeforeSamples ==
    /\ (written > 0 \/ deliveries > 0 \/ Capturing) => HeaderComplete
    /\ (out # <<>> /\ ~HeaderComplete)
         => (pc = "exited" /\ exit_status = 1 /\ written = 0 /\ deliveries = 0)

\* C7 witness: sample bytes in the file behind a complete header
C7_Witness == written > 0 /\ HeaderComplete /\ pc = "done"

AllOnes == <<65535, 65535>>

\* C8: the size field of the 'fmt ' record equals the byte length of the
\* format body that follows it (16), that of the 'auxi' record the byte length
\* of the auxiliary body that follows it (52); the RIFF and 'data' size fields
\* hold 0xFFFFFFFF.
C8_SizeFields ==
    /\ Len(out) >= 1 => out[1].item.val.size = AllOnes
    /\ (Len(out) >= 3 /\ out[3].count = out[3].item.size)
         => /\ out[2].item.val.size = <<0, out[3].count>>
            /\ out[3].count = 16
    /\ (Len(out) >= 5 /\ out[5].count = out[5].item.size)
         => /\ out[4].item.val.size = <<0, out[5].count>>
            /\ out[5].count = 52
    /\ Len(out) >= 6 => out[6].item.val.size = AllOnes

\* C8 witness: the whole header is in the file
C8_Witness == HeaderComplete /\ out[2].item.val.size = <<0, 16>>

\* twice a 32-bit value, exactly, as <<carry, hi, lo>>
Twice(x) ==
    LET lo == 2 * x[2]
        hi == 2 * x[1] + (lo \div 65536)
    IN  <<hi \div 65536, hi % 65536, lo % 65536>>

\* C9 as stated: for every 32-bit sample_rate the byte rate equals
\* channels * bytes-per-sample * sample_rate.
C9_ByteRateExact ==
    Len(out) >= 3
        => LET f == out[3].item.val
           IN  Twice(f.samples_per_sec) = <<0, f.data_rate[1], f.data_rate[2]>>

\* C9 amended: channels = 2, block alignment = 2 and the byte rate is
\* 2 * sample_rate modulo 2^32, which is the exact product when
\* sample_rate < 2^31 (4096000 for 2048000).
C9_ByteRateMod32 ==
    Len(out) >= 3
        => LET f == out[3].item.val
               t == Twice(f.samples_per_sec)
           IN  /\ f.samples_per_sec = samp_rate
               /\ f.bits_per_sample = 8
               /\ f.channels = 2
               /\ f.block_size = 2
               /\ f.data_rate = <<t[2], t[3]>>
               /\ (f.samples_per_sec[1] < 32768 => t[1] = 0)
               /\ (f.samples_per_sec = <<31, 16384>> => f.data_rate = <<62, 32768>>)

\* C9 witness: a sample rate of 3000000000, whose doubled value wraps
C9_Witness ==
    /\ Len(out) >= 3
    /\ samp_rate = <<45776, 24064>>
    /\ out[3].item.val.data_rate = <<26016, 48128>>

\* C10: every byte b at every position of a processed buffer is replaced in
\* place by (b - 128) mod 256, the number and order of bytes unchanged, in the
\* sync loop and in the async callback alike.
C10_BiasRemoved ==
    last.fate = "written"
        => /\ Len(lastWrite.req) = last.req
           /\ Len(raw) = last.len
           /\ \A i \in 1..last.req :
                /\ lastWrite.req[i] = (IF raw[i] >= 128 THEN raw[i] - 128
                                       ELSE raw[i] + 128)
                /\ buffer[i] = lastWrite.req[i]

\* C10 witness: a written buffer that held every byte value 0..255
C10_Witness ==
    /\ last.fate = "written"
    /\ last.req = 512
    /\ {raw[i] : i \in 1..last.req} = 0..255
    /\ lastWrite.acc = 512

\* C11 as stated: recovering b takes adding 128 (mod 256), and a second
\* application of the conversion to the converted byte never gives back b.
C11_SecondPassLosesByte ==
    (pc = "convert" /\ passes >= 1)
        => /\ (passes = 1 => (buffer[1] + 128) % 256 = raw[1])
           /\ (passes = 2 => buffer[1] # raw[1])

\* C11 amended: one pass moves every byte b to a different value c with
\* (c + 128) mod 256 = b, and a second pass gives b back: subtracting 128
\* twice is subtracting 256, so the conversion is its own inverse.
C11_ConversionIsInvolution ==
    (pc = "convert" /\ passes >= 1)
        => /\ (passes % 2 = 1 => /\ buffer[1] # raw[1]
                                  /\ (buffer[1] + 128) % 256 = raw[1]
                                  /\ buffer[1] \in 0..255)
           /\ (passes % 2 = 0 => buffer[1] = raw[1])

\* C11 witness: byte 200 converted twice is 200 again
C11_Witness ==
    /\ pc = "convert"
    /\ passes = 2
    /\ raw = <<200>>
    /\ buffer = <<200>>

\* C12: in sync mode and in async mode alike, every buffer that is converted
\* and written has passed through the power monitor (its pairs are in the
\* accumulators or in a report), and once the pair count exceeds
\* sample_rate * interval_seconds a report line has been emitted.
C12_MonitoredInBothModes ==
    last.fate = "written"
        => /\ (mon # ZeroMon \/ reports # <<>>)
           /\ (GtU32(U32(last.req \div 2), MulU32(interval_seconds, samp_rate))
                  => reports # <<>>)

\* C13: for a buffer of odd length n (here the first buffer of a sync run)
\* the monitor accumulates exactly floor(n/2) pairs taken from bytes 0..n-2:
\* neither the trailing byte n-1 nor an index >= n enters the peaks or sums,
\* while the writer still writes all n bytes.
C13_OddTailNotMonitored ==
    (sync_mode = 1 /\ deliveries = 1 /\ last.fate = "written"
       /\ last.req % 2 = 1 /\ last.acc = last.req /\ reports = <<>>)
        => LET pairs == last.req \div 2
               I == {Sq(raw[2 * k + 1]) : k \in 0..(pairs - 1)}
               Q == {Sq(raw[2 * k + 2]) : k \in 0..(pairs - 1)}
           IN  /\ mon.interval = pairs
               /\ mon.iavg = SumSq(raw, 0, 0, pairs - 1, 0)
               /\ mon.qavg = SumSq(raw, 1, 0, pairs - 1, 0)
               /\ mon.ipeak \in I
               /\ mon.qpeak \in Q
               /\ Len(lastWrite.req) = last.req

\* a sync-loop buffer is accounted for in this step
Accounting == pc = "sync_proc" /\ last.fate = "delivered" /\ last'.fate = "written"

\* c pairs exceed the exact product sample_rate * interval_seconds
ExceedsExact(c) ==
    LET t == Twice(samp_rate) IN t[1] = 0 /\ t[2] = 0 /\ c > t[3]

\* c pairs exceed the product reduced modulo 2^32 (c is below 2^16 here)
ExceedsMod32(c) ==
    LET t == Twice(samp_rate) IN t[2] = 0 /\ c > t[3]

\* the accumulators m hold the counter c and at least the sums and peaks of old
CarriedOver(m, old, c) ==
    /\ m.interval = c
    /\ m.iavg >= old.iavg /\ m.qavg >= old.qavg
    /\ m.ipeak >= old.ipeak /\ m.qpeak >= old.qpeak

\* C14 as stated: after each buffer is accounted for, if the pair counter
\* exceeds sample_rate * interval_seconds exactly one report is emitted and the
\* counter, peaks and sums are reset to zero; otherwise no report is emitted
\* and the accumulators carry over; the counter is at most the product at the
\* start of every buffer.
C14_ReportIffExactProduct ==
    [][LET c == mon.interval + (n_read' \div 2)
       IN  IF Accounting
           THEN /\ ~ExceedsExact(mon.interval)
                /\ IF ExceedsExact(c)
                   THEN /\ Len(reports') = Len(reports) + 1
                        /\ SubSeq(reports', 1, Len(reports)) = reports
                        /\ CarriedOver(reports'[Len(reports')], mon, c)
                        /\ mon' = ZeroMon
                   ELSE /\ reports' = reports
                        /\ CarriedOver(mon', mon, c)
           ELSE mon' = mon /\ reports' = reports]_vars

\* C14 amended: the same with the product taken as the code computes it, in
\* unsigned 32-bit arithmetic: (sample_rate * interval_seconds) mod 2^32.
C14_ReportIffProductMod32 ==
    [][LET c == mon.interval + (n_read' \div 2)
       IN  IF Accounting
           THEN /\ ~ExceedsMod32(mon.interval)
                /\ IF ExceedsMod32(c)
                   THEN /\ Len(reports') = Len(reports) + 1
                        /\ SubSeq(reports', 1, Len(reports)) = reports
                        /\ CarriedOver(reports'[Len(reports')], mon, c)
                        /\ mon' = ZeroMon
                   ELSE /\ reports' = reports
                        /\ CarriedOver(mon', mon, c)
           ELSE mon' = mon /\ reports' = reports]_vars

\* C14 witness: at rate 128 the first buffer leaves 256 pairs, not above the
\* threshold 256, and the second brings 512, reported and reset
C14_Witness ==
    /\ samp_rate = U32(128)
    /\ deliveries = 2
    /\ last.fate = "written"
    /\ Len(reports) = 1
    /\ reports[1].interval = 512
    /\ mon = ZeroMon

\* C15 as stated: for the raw stream 255, 0, 255, 0, ... channel 1 is silent
\* at the first report (its sum of squares, hence its mean, is zero, so its
\* peak-to-average ratio divides by zero) while channel 0 shows a full-scale
\* peak.
C15_ChannelOneSilent ==
    (feed = "alt" /\ reports # <<>>)
        => /\ reports[1].qavg = 0
           /\ reports[1].ipeak >= 127 * 127

\* C15 amended: for that stream channel 1 is at full scale at the first
\* report: every raw 0 contributes (0 - 128)^2 / 128^2 = 1, so its peak is 1,
\* its sum is at least the pair count and its mean is not zero (no division
\* by zero); channel 0 peaks at (255 - 128)^2 / 128^2 = 127^2 / 128^2.
\* (Sums and peaks are in units of 1 / 128^2.)
C15_ChannelOneFullScale ==
    (feed = "alt" /\ reports # <<>>)
        => /\ reports[1].interval > 0
           /\ reports[1].qpeak = 128 * 128
           /\ reports[1].qavg >= 128 * 128 * reports[1].interval
           /\ reports[1].ipeak = 127 * 127
           /\ reports[1].iavg >= 127 * 127 * reports[1].interval

\* C15 witness: sample rate 1, one full buffer of 256 pairs 255, 0 reported
C15_Witness ==
    /\ feed = "alt"
    /\ samp_rate = U32(1)
    /\ Len(reports) = 1
    /\ reports[1].interval = 256
    /\ reports[1].qavg = 256 * 128 * 128
    /\ reports[1].iavg = 256 * 127 * 127

\* C16: the monitor computes its statistics for every buffer from the raw,
\* pre-bias-removal byte values (it reads the buffer before the conversion
\* mutates it, and the conversion comes before the write): every delivered byte
\* that enters the sums enters with its raw value, and the bytes written are
\* the converted raw bytes.  An uninitialised byte may have any value g.
C16_StatisticsFromRawBytes ==
    [][LET n    == n_read'
           it   == Iterations(n)
           view == [i \in 1..Len(buffer) |-> PatternByte(feed, i - 1)]
           st   == IF reports' # reports THEN reports'[Len(reports')] ELSE mon'
       IN  Accounting
             => /\ \E g \in Garbage :
                     /\ st.iavg = mon.iavg + SumSq(view, 0, 0, it - 1, g)
                     /\ st.qavg = mon.qavg + SumSq(view, 1, 0, it - 1, g)
                /\ lastWrite'.req = [i \in 1..n |-> (raw[i] + 128) % 256]]_vars

\* C17: a requested buffer size below 512 or above 4194304 is replaced by
\* 262144 without terminating the program and a size inside the range is
\* kept, so the size used for the allocation and for every read lies in
\* [512, 4194304] (and no read returns more than that size).
C17_BlockSizeValidated ==
    pc # "start"
        => /\ out_block_size = (IF block_req < 512 \/ block_req > 4194304
                                THEN 262144 ELSE block_req)
           /\ out_block_size >= 512
           /\ out_block_size <= 4194304
           /\ (pc = "open" => exit_status = -1)
           /\ n_read <= out_block_size
           /\ Len(raw) <= out_block_size

\* C17 witness: a request of 4194305 bytes was replaced and a read took place
C17_Witness ==
    /\ block_req = 4194305
    /\ out_block_size = 262144
    /\ MsgBlockSize \in stderr
    /\ deliveries >= 1
    /\ exit_status = -1

\* C18: any device failure (failing to open, failing to configure, a failed
\* read) is fatal: no samples are captured after it and the program ends
\* with a non-zero exit status (stated here for the runs in which the output
\* file opens).
C18_DeviceFailureFatal ==
    /\ (device = "openfail" /\ pc \notin {"start", "open"})
         => (pc = "exited" /\ exit_status # 0 /\ deliveries = 0)
    /\ (MsgSetup \in stderr /\ MsgOpenFile \notin stderr)
         => /\ deliveries = 0
            /\ written = 0
            /\ (pc \in {"done", "exited"} => exit_status # 0)
    /\ (MsgReadFailed \in stderr)
         => /\ pc \in {"finish", "done"}
            /\ (pc = "done" => exit_status # 0)

\* C19: a failure to open the output file is fatal: no header or sample byte
\* is written, capture never starts, and the process ends with a non-zero
\* exit status.
C19_OutputOpenFailureFatal ==
    (MsgOpenFile \in stderr)
        => /\ out = <<>>
           /\ written = 0
           /\ deliveries = 0
           /\ pc = "done"
           /\ exit_status # 0

\* C20: the budget counter bytes_to_read never wraps below zero: in both modes
\* every step that changes it is a decrement by the processed length n_read,
\* taken while the counter is positive, with n_read at most the counter, so
\* the result (computed here without wrap-around) is never negative.
C20_BudgetNeverWraps ==
    [][\/ bytes_to_read' = bytes_to_read
       \/ /\ bytes_to_read > 0
          /\ n_read' <= bytes_to_read
          /\ bytes_to_read' = bytes_to_read - n_read'
          /\ bytes_to_read' >= 0]_vars

\* C20 witness: a budget of 514 bytes in async mode, 512 taken by the first
\* buffer and the second buffer cut to the remaining 2
C20_Witness ==
    /\ sync_mode = 0
    /\ limit = 514
    /\ deliveries = 2
    /\ trunc = 2
    /\ last.fate = "written"
    /\ last.req = 2
    /\ bytes_to_read = 0

====
